---- MODULE Spec2Model ----
(***************************************************************************)
(* Model of turg/views/websocket.py: the WebSocket view (handshake,        *)
(* registry, rate-limit gate, receive loop), process_request, retrieve,    *)
(* place and broadcast.  Every session is one coroutine; an action is the  *)
(* code a coroutine runs between two suspensions (awaits).                  *)
(*                                                                         *)
(* Library behaviour the model relies on:                                  *)
(*  - a send on a closed socket raises;                                    *)
(*  - "async for msg in ws" ends once the socket is closed;                *)
(*  - a Python list iterator keeps an index into the list;                 *)
(*  - list.remove raises ValueError for an absent element;                 *)
(*  - json.dumps raises TypeError for a set.                               *)
(***************************************************************************)
EXTENDS Integers, Sequences, FiniteSets, TLC

\* ---------------------------------------------------------------- bounds
MaxConn == 2
Requests == 1
MaxFrames == 2

Conn == 1..MaxConn
\* every connection brings at most one new identity
Uids == 1..MaxConn
NoUid == 0
Palette == <<"red", "blue", "green", "black">>

\* get_user_color(app, uid), when the identity has a color
ColorOf(u) == Palette[((u - 1) % Len(Palette)) + 1]
Addr == 1..MaxConn

VARIABLES
  pc,                \* position of each connection's coroutine
  uid,               \* query parameter uid of each request
  color,             \* local `color` of WebSocket.get
  addr,              \* id(ws) of each connection's WebSocketResponse
  closed,            \* the socket is closed: sends raise, the loop ends
  websockets,        \* app['websockets'], a list
  websockets_colors, \* app['websockets_colors'], a dict keyed by id(ws)
  hits,              \* the rate limiter's per-key request count
  local,             \* locals of a coroutine suspended inside a handler
  known,             \* the identities seen so far
  frames,            \* number of frames the server has read so far
  window,            \* per identity: frames seen and admitted in this window
  bc,                \* history of each broadcast in progress
  last               \* what the last step did: sends, store calls, result

vars == <<pc, uid, color, addr, closed, websockets,
          websockets_colors, hits, known, frames, window, local, bc, last>>

\* ------------------------------------------------------- dicts and lists
Get(d, k, dflt) == IF k \in DOMAIN d THEN d[k] ELSE dflt

Put(d, k, v) == [f \in DOMAIN d \cup {k} |-> IF f = k THEN v ELSE d[f]]

Pop(d, k) == [f \in DOMAIN d \ {k} |-> d[f]]

Range(s) == {s[i] : i \in DOMAIN s}

Count(s, x) == Cardinality({i \in DOMAIN s : s[i] = x})

IndexOf(s, x) == CHOOSE i \in DOMAIN s : s[i] = x /\ \A j \in DOMAIN s : s[j] = x => i <= j

\* list.remove(x): drops the first occurrence; the caller checks presence
ListRemove(s, x) == [i \in 1..(Len(s) - 1) |-> IF i < IndexOf(s, x) THEN s[i] ELSE s[i + 1]]

\* ------------------------------------------------------------- messages
Texts == {"close", "bad", "list", "noargs", "notype", "inttype", "range",
          "Update", "updbad", "updlist", "ping"}

Msgs == {[tp |-> "text", data |-> t] : t \in Texts}
          \cup {[tp |-> "binary", data |-> ""], [tp |-> "error", data |-> ""]}

JStr(s) == [kind |-> "str", val |-> s]
JInt(n) == [kind |-> "int", val |-> n]
JList == [kind |-> "list", val |-> <<>>]
JDict(r) == [kind |-> "dict", val |-> r]

\* json.loads(t) returns: neither "bad" nor the bare word close is JSON
ParseOK(t) == t \notin {"bad", "close"}

JsonLoads(t) ==
  CASE t = "list"      -> JList
    [] t = "noargs"    -> JDict([id |-> 1, type |-> JStr("range")])
    [] t = "notype"    -> JDict([id |-> 1, args |-> JDict(<<>>)])
    [] t = "inttype"   -> JDict([type |-> JInt(1), args |-> JDict(<<>>)])
    [] t = "range"     -> JDict([id |-> 2, type |-> JStr("range"), args |-> JDict(<<>>)])
    [] t = "Update"    -> JDict([id |-> 3, type |-> JStr("Update"),
                                 args |-> JDict([x |-> 1, y |-> 2, name |-> "n"])])
    [] t = "updbad"    -> JDict([type |-> JStr("update"), args |-> JDict([x |-> 1])])
    [] t = "updlist"   -> JDict([id |-> 5, type |-> JStr("update"), args |-> JList])
    [] t = "ping"      -> JDict([id |-> 6, type |-> JStr("ping"), args |-> JDict(<<>>)])
    [] OTHER           -> JStr(t)

Lower(s) == CASE s = "Update" -> "update" [] s = "RANGE" -> "range" [] OTHER -> s

\* ------------------------------------------------------------ envelopes
NoId == 0

UserColorEnv(col) == [data |-> [color |-> col], meta |-> [type |-> "userColor"]]

LimitEnv == [error |-> [message |-> "Requests limit exceeded"]]

DataEnv(d, m) == [data |-> d, meta |-> m]

\* an error envelope that keeps a data field next to the error
ErrorEnv_both(e, m) == [error |-> e, meta |-> m, data |-> <<>>]

ErrorEnv(e, m) == [error |-> e, meta |-> m]

InvalidPayload == [message |-> "Invalid payload"]

\* a dispatcher that forgets the request's id
MetaOf_noid(d) == [id |-> NoId, type |-> Lower(d.val.type.val)]

\* lines 86-89
MetaOf(d) == [id |-> Get(d.val, "id", NoId), type |-> Lower(d.val.type.val)]

To(c, env) == [to |-> c, env |-> env]

\* ------------------------------------------------------ bookkeeping
NoMsg == [tp |-> "", data |-> ""]

NoLocal == [idle |-> TRUE]

NoWindow == [seen |-> 0, passed |-> 0, by |-> {}]

NoB == [by |-> 0, owner |-> "", start |-> {}, stayed |-> {}, got |-> <<>>, failed |-> <<>>,
        mut |-> FALSE]

\* the record of a step: the frame it handled, whether the identity's budget
\* was used up before it, the envelopes it sent, the store calls it made and,
\* when it ended a broadcast, that broadcast's history
Lbl(op, c, msg, over, sent, store, b) ==
  [op |-> op, conn |-> c, msg |-> msg, over |-> over, sent |-> sent, store |-> store, b |-> b,
   http |-> 0]

Quiet(op, c) == Lbl(op, c, NoMsg, FALSE, <<>>, <<>>, NoB)

\* web.json_response(..., status=code): the request is answered and over
Response(op, c, code) == [Quiet(op, c) EXCEPT !.http = code]

\* --------------------------------------------------------- rate limiter
\* a gate that keys the limiter by the connection
LimiterKey_conn(c) == MaxConn + c

\* the key the gate passes to the limiter (line 47: the uid, not the socket)
LimiterKey(c) == uid[c]

\* ratelimiter.limit_exceeded(key): the budget of the window is used up
limit_exceeded(h, k) == Get(h, k, 0) >= Requests

\* ... and the call counts the request against the key
RecordHit(h, k) == Put(h, k, Get(h, k, 0) + 1)

\* ---------------------------------------------------------------- state
Init ==
  /\ pc = [c \in Conn |-> "new"]
  /\ uid = [c \in Conn |-> NoUid]
  /\ color = [c \in Conn |-> ""]
  /\ addr = [c \in Conn |-> 0]
  /\ closed = [c \in Conn |-> FALSE]
  /\ websockets = <<>>
  /\ websockets_colors = <<>>
  /\ hits = <<>>
  /\ known = {}
  /\ frames = 0
  /\ window = [u \in Uids |-> NoWindow]
  /\ local = [c \in Conn |-> NoLocal]
  /\ bc = [c \in Conn |-> NoB]
  /\ last = Quiet("init", 0)

Running(c) == pc[c] \in {"active", "retrieve", "place", "broadcast"}

\* addresses of WebSocketResponse objects something still refers to: the
\* coroutine that owns it, or the list app['websockets']
LiveAddr == {addr[c] : c \in {d \in Conn : Running(d) \/ d \in Range(websockets)}}

FreeAddr == Addr \ LiveAddr

\* id(ws) of a new object: an address no live object has.  Addresses are
\* names; the allocator is taken to hand out the lowest free one.
NewAddr == CHOOSE a \in FreeAddr : \A b \in FreeAddr : a <= b

\* a registry change seen by the broadcasts suspended inside a send
NoteChange(gone) ==
  [b \in Conn |-> IF pc[b] = "broadcast"
                  THEN [bc[b] EXCEPT !.mut = TRUE, !.stayed = @ \ gone]
                  ELSE bc[b]]

\* ------------------------------------------------------------ handshake
\* A request runs from its arrival to its answer or its upgrade without
\* touching shared state before line 35, so the handshake is one step.
\* Connections are numbered in the order their handshakes end, identities
\* in the order they first show up.
Arrives(c, u) ==
  /\ pc[c] = "new"
  /\ \A d \in Conn : d < c => pc[d] # "new"
  /\ u \in Uids => \A v \in Uids : v < u => v \in known
  /\ known' = known \cup ({u} \cap Uids)

\* what get_user_color can do to a request that is turned away
LookupFailures == {"ValueError", "none"}

\* a handshake that registers the socket before it looks at the color
Reject_late(c, u, outcome) ==
  /\ Arrives(c, u)
  /\ u = NoUid <=> outcome = "KeyError"
  /\ pc' = [pc EXCEPT ![c] = "rejected"]
  /\ websockets' = Append(websockets, c)
  /\ last' = CASE outcome = "KeyError"   -> Response("no_uid", c, 400)
               [] outcome = "ValueError" -> Response("lookup_failed", c, 500)
               [] OTHER                  -> Response("no_color", c, 401)
  /\ UNCHANGED <<uid, color, addr, closed, websockets_colors, hits, frames, window, local, bc>>

\* lines 15-28: no uid (400), get_user_color raised ValueError (500) or
\* gave no color (401): the request is answered and nothing else happens
Reject(c, u, outcome) ==
  /\ Arrives(c, u)
  /\ u = NoUid <=> outcome = "KeyError"
  /\ pc' = [pc EXCEPT ![c] = "rejected"]
  /\ last' = CASE outcome = "KeyError"   -> Response("no_uid", c, 400)
               [] outcome = "ValueError" -> Response("lookup_failed", c, 500)
               [] OTHER                  -> Response("no_color", c, 401)
  /\ UNCHANGED <<uid, color, addr, closed, websockets, websockets_colors, hits, frames, window,
                 local, bc>>

\* a handshake that leaves the color map alone
Register_unmapped(c, u) ==
  /\ Arrives(c, u)
  /\ u \in Uids
  /\ pc' = [pc EXCEPT ![c] = "active"]
  /\ uid' = [uid EXCEPT ![c] = u]
  /\ color' = [color EXCEPT ![c] = ColorOf(u)]
  /\ addr' = [addr EXCEPT ![c] = NewAddr]
  /\ websockets' = Append(websockets, c)
  /\ bc' = NoteChange({})
  /\ last' = Lbl("register", c, NoMsg, FALSE, <<To(c, UserColorEnv(ColorOf(u)))>>, <<>>, NoB)
  /\ UNCHANGED <<closed, websockets_colors, hits, frames, window, local>>

\* lines 30-41: upgrade, register in both collections, push userColor
Register(c, u) ==
  /\ Arrives(c, u)
  /\ u \in Uids
  /\ pc' = [pc EXCEPT ![c] = "active"]
  /\ uid' = [uid EXCEPT ![c] = u]
  /\ color' = [color EXCEPT ![c] = ColorOf(u)]
  /\ addr' = [addr EXCEPT ![c] = NewAddr]
  /\ websockets' = Append(websockets, c)
  /\ websockets_colors' = Put(websockets_colors, NewAddr, ColorOf(u))
  /\ bc' = NoteChange({})
  /\ last' = Lbl("register", c, NoMsg, FALSE, <<To(c, UserColorEnv(ColorOf(u)))>>, <<>>, NoB)
  /\ UNCHANGED <<closed, hits, frames, window, local>>

\* ------------------------------------------------------------ loop exit
\* the client went away or the read failed: the socket is closed under the
\* coroutine, wherever it is suspended
PeerDisconnect(c) ==
  /\ Running(c)
  /\ ~closed[c]
  /\ closed' = [closed EXCEPT ![c] = TRUE]
  /\ last' = Quiet("disconnect", c)
  /\ UNCHANGED <<pc, uid, color, addr, websockets, websockets_colors, hits, known,
                 frames, window, local, bc>>

\* list.remove(x) raises ValueError when x is not in the list
RemoveRaises(l, x) == x \notin Range(l)

\* line 68 (and 70): the async for ended; the socket leaves the list, the
\* request is over and its locals are gone
LoopExit(c) ==
  /\ pc[c] = "active"
  /\ closed[c]
  /\ IF RemoveRaises(websockets, c)
     THEN /\ pc' = [pc EXCEPT ![c] = "crashed"]
          /\ last' = Quiet("remove_raised", c)
          /\ UNCHANGED <<websockets, bc, addr>>
     ELSE /\ websockets' = ListRemove(websockets, c)
          /\ pc' = [pc EXCEPT ![c] = "closed"]
          /\ addr' = [addr EXCEPT ![c] = 0]
          /\ bc' = NoteChange({c})
          /\ last' = Quiet("exit", c)
  /\ uid' = [uid EXCEPT ![c] = NoUid]
  /\ color' = [color EXCEPT ![c] = ""]
  /\ UNCHANGED <<closed, websockets_colors, hits, known, frames, window, local>>

\* ------------------------------------------------------- the receive loop
\* line 45: the loop reads the next frame of an open socket
CanRecv(c) ==
  /\ pc[c] = "active"
  /\ ~closed[c]
  /\ frames < MaxFrames

\* a gate that never closes
Limited_never(c) == FALSE

\* line 47
Limited(c) == limit_exceeded(hits, LimiterKey(c))

\* the budget of the user's identity was used up before this frame
Over(c) == window[uid[c]].seen >= Requests

\* an uncaught exception leaves WebSocket.get: line 68 is not reached
Raise(c, m) ==
  /\ pc' = [pc EXCEPT ![c] = "crashed"]
  /\ uid' = [uid EXCEPT ![c] = NoUid]
  /\ color' = [color EXCEPT ![c] = ""]
  /\ local' = [local EXCEPT ![c] = NoLocal]
  /\ last' = Lbl("raise", c, m, Over(c), <<>>, <<>>, NoB)

\* the frame is handled and the loop reads on
Handled(c, op, m, sent) ==
  /\ last' = Lbl(op, c, m, Over(c), sent, <<>>, NoB)
  /\ UNCHANGED <<pc, uid, color, local>>

\* lines 47-51: over the limit: warn the sender and read on
RecvLimited(c, m) ==
  /\ CanRecv(c)
  /\ Limited(c)
  /\ hits' = RecordHit(hits, LimiterKey(c))
  /\ frames' = frames + 1
  /\ window' = [window EXCEPT ![uid[c]].seen = @ + 1]
  /\ IF m.tp = "error"
     THEN /\ closed' = [closed EXCEPT ![c] = TRUE]
          /\ Raise(c, m)
     ELSE /\ Handled(c, "limited", m, <<To(c, LimitEnv)>>)
          /\ UNCHANGED closed
  /\ UNCHANGED <<addr, websockets, websockets_colors, known, bc>>

\* what every frame under the limit starts with
Admit(c, m, tp) ==
  /\ CanRecv(c)
  /\ ~Limited(c)
  /\ m.tp = tp
  /\ hits' = RecordHit(hits, LimiterKey(c))
  /\ frames' = frames + 1
  /\ window' = [window EXCEPT ![uid[c]] =
                  [seen |-> @.seen + 1, passed |-> @.passed + 1, by |-> @.by \cup {c}]]

\* lines 53-55: the close command; ws.close() is awaited, then the loop ends
RecvClose(c, m) ==
  /\ Admit(c, m, "text")
  /\ m.data = "close"
  /\ closed' = [closed EXCEPT ![c] = TRUE]
  /\ Handled(c, "close", m, <<>>)
  /\ UNCHANGED <<addr, websockets, websockets_colors, known, bc>>

\* a loop that answers a frame it cannot parse
RecvUnparsed_answers(c, m) ==
  /\ Admit(c, m, "text")
  /\ m.data # "close"
  /\ ~ParseOK(m.data)
  /\ Handled(c, "unparsed", m, <<To(c, [error |-> [message |-> "Bad JSON"]])>>)
  /\ UNCHANGED <<addr, closed, websockets, websockets_colors, known, bc>>

\* lines 57-60: json.loads raised, nothing is sent
RecvUnparsed(c, m) ==
  /\ Admit(c, m, "text")
  /\ m.data # "close"
  /\ ~ParseOK(m.data)
  /\ Handled(c, "unparsed", m, <<>>)
  /\ UNCHANGED <<addr, closed, websockets, websockets_colors, known, bc>>

\* lines 65-66: a transport error is logged; the socket is closed by then
RecvError(c, m) ==
  /\ Admit(c, m, "error")
  /\ closed' = [closed EXCEPT ![c] = TRUE]
  /\ Handled(c, "error", m, <<>>)
  /\ UNCHANGED <<addr, websockets, websockets_colors, known, bc>>

\* neither branch of lines 52 and 65: the frame is dropped
RecvOther(c, m) ==
  /\ Admit(c, m, "binary")
  /\ Handled(c, "other", m, <<>>)
  /\ UNCHANGED <<addr, closed, websockets, websockets_colors, known, bc>>

\* ------------------------------------------------------- process_request
Parsed(c, m) ==
  /\ Admit(c, m, "text")
  /\ m.data # "close"
  /\ ParseOK(m.data)

\* line 83
Rejected(d) == d.kind # "dict" \/ "type" \notin DOMAIN d.val \/ "args" \notin DOMAIN d.val

\* lines 83-84: the error dict is returned to the caller, which drops it
RecvRejected(c, m) ==
  /\ Parsed(c, m)
  /\ Rejected(JsonLoads(m.data))
  /\ Handled(c, "rejected", m, <<>>)
  /\ UNCHANGED <<addr, closed, websockets, websockets_colors, known, bc>>

Dispatched(c, m) == Parsed(c, m) /\ ~Rejected(JsonLoads(m.data))

\* line 87
TypeOf(d) == Lower(d.val.type.val)

\* line 87 (.lower() of a non-string), lines 103 and 109 (.get / .pop of a
\* non-mapping) and lines 96-99 (json.dumps of a set) raise
Raises(d) ==
  IF d.val.type.kind # "str" THEN TRUE
  ELSE IF TypeOf(d) \in {"range", "update"} THEN d.val.args.kind # "dict"
  ELSE TRUE

RecvRaises(c, m) ==
  /\ Dispatched(c, m)
  /\ Raises(JsonLoads(m.data))
  /\ Raise(c, m)
  /\ UNCHANGED <<addr, closed, websockets, websockets_colors, known, bc>>

\* lines 102-104: retrieve calls get_voxels and waits for it
RecvRange(c, m) ==
  /\ Dispatched(c, m)
  /\ LET d == JsonLoads(m.data) IN
       /\ ~Raises(d)
       /\ TypeOf(d) = "range"
       /\ pc' = [pc EXCEPT ![c] = "retrieve"]
       /\ local' = [local EXCEPT ![c] = [meta |-> MetaOf(d), msg |-> m]]
       /\ last' = Lbl("range", c, m, Over(c), <<>>, <<"get_voxels">>, NoB)
  /\ UNCHANGED <<uid, color, addr, closed, websockets, websockets_colors, known, bc>>

\* an own send after a wait: raises when the socket was closed meanwhile
Reply(c, op, env) ==
  IF closed[c]
  THEN /\ pc' = [pc EXCEPT ![c] = "crashed"]
       /\ uid' = [uid EXCEPT ![c] = NoUid]
       /\ color' = [color EXCEPT ![c] = ""]
       /\ local' = [local EXCEPT ![c] = NoLocal]
       /\ last' = Lbl("reply_raised", c, local[c].msg, FALSE, <<>>, <<>>, NoB)
  ELSE /\ pc' = [pc EXCEPT ![c] = "active"]
       /\ local' = [local EXCEPT ![c] = NoLocal]
       /\ last' = Lbl(op, c, local[c].msg, FALSE, <<To(c, env)>>, <<>>, NoB)
       /\ UNCHANGED <<uid, color>>

GetVoxelsResults == {<<>>, <<[x |-> 1, y |-> 2, owner |-> "red"]>>}

\* line 105: the answer of the store is sent to the asker
RetrieveDone(c, voxels) ==
  /\ pc[c] = "retrieve"
  /\ Reply(c, "voxels", DataEnv(voxels, local[c].meta))
  /\ UNCHANGED <<addr, closed, websockets, websockets_colors, hits, known, frames,
                 window, bc>>

\* ----------------------------------------------------------------- place
\* verify_payload(args): the payload names a cell
verify_payload(args) == {"x", "y"} \subseteq DOMAIN args

\* line 109
Stripped(d) == Pop(d.val.args.val, "name")

\* a place that does not look at the verdict of verify_payload
PayloadOK_always(d) == TRUE

\* line 110
PayloadOK(d) == verify_payload(Stripped(d))

\* lines 110-114: an invalid payload is answered and nothing else happens
RecvInvalid(c, m) ==
  /\ Dispatched(c, m)
  /\ LET d == JsonLoads(m.data) IN
       /\ ~Raises(d)
       /\ TypeOf(d) = "update"
       /\ ~PayloadOK(d)
       /\ Handled(c, "invalid", m, <<To(c, ErrorEnv(InvalidPayload, MetaOf(d)))>>)
  /\ UNCHANGED <<addr, closed, websockets, websockets_colors, known, bc>>

\* the key place looks the sender's color up with (line 117)
ColorKey(c) == addr[c]

\* lines 116-119: stamp the owner, hand the voxel to the store and wait;
\* a missing color is a KeyError, answered like a store error (120-127)
RecvUpdate(c, m) ==
  /\ Dispatched(c, m)
  /\ LET d == JsonLoads(m.data) IN
       /\ ~Raises(d)
       /\ TypeOf(d) = "update"
       /\ PayloadOK(d)
       /\ IF ColorKey(c) \in DOMAIN websockets_colors
          THEN /\ pc' = [pc EXCEPT ![c] = "place"]
               /\ local' = [local EXCEPT ![c] =
                    [meta |-> MetaOf(d), msg |-> m,
                     args |-> Put(Stripped(d), "owner", websockets_colors[ColorKey(c)])]]
               /\ last' = Lbl("update", c, m, Over(c), <<>>, <<"store_voxel">>, NoB)
               /\ UNCHANGED <<uid, color>>
          ELSE Handled(c, "keyerror", m,
                       <<To(c, ErrorEnv([message |-> "KeyError"], MetaOf(d)))>>)
  /\ UNCHANGED <<addr, closed, websockets, websockets_colors, known, bc>>

\* the store's failures: ValueError or KeyError, with a dict or a text
StoreErrors == {[structured |-> TRUE, arg |-> [message |-> "taken"]],
                [structured |-> FALSE, arg |-> "failed"]}

\* an answer that always carries the exception's string
StoreErrorEnv_text(e, meta) == ErrorEnv([message |-> "error"], meta)

\* lines 121-126
StoreErrorEnv(e, meta) ==
  ErrorEnv(IF e.structured THEN e.arg ELSE [message |-> e.arg], meta)

\* lines 120-127: the store refused: only the submitter hears of it
StoreFailed(c, e) ==
  /\ pc[c] = "place"
  /\ Reply(c, "storeerror", StoreErrorEnv(e, local[c].meta))
  /\ UNCHANGED <<addr, closed, websockets, websockets_colors, hits, known, frames,
                 window, bc>>

\* ------------------------------------------------------------- broadcast
\* store_voxel returns the Voxel it stored
Stored(args) == Put(Put(args, "name", ""), "updated", 1)

\* lines 133-137: attr.asdict, without 'updated' and without an empty name
Projection(v) == IF v.name = "" THEN Pop(Pop(v, "updated"), "name") ELSE Pop(v, "updated")

Min(S) == CHOOSE i \in S : \A j \in S : i <= j

\* the first position after n whose socket is open, or one past the list
FirstOpen(n) ==
  LET open == {i \in (n + 1)..Len(websockets) : ~closed[websockets[i]]}
  IN IF open = {} THEN Len(websockets) + 1 ELSE Min(open)

\* lines 139-144: the loop goes on from the n elements its iterator has
\* yielded, reading the list as it is now.  A send on a closed socket raises
\* at once, is logged, and the loop moves on; a send on an open socket
\* suspends the coroutine.  Past the end of the list broadcast returns.
Visit(c, n, env, b, m, sent) ==
  LET k == FirstOpen(n)
      b2 == [b EXCEPT !.failed = @ \o SubSeq(websockets, n + 1, k - 1)]
  IN IF k > Len(websockets)
     THEN /\ pc' = [pc EXCEPT ![c] = "active"]
          /\ local' = [local EXCEPT ![c] = NoLocal]
          /\ bc' = [bc EXCEPT ![c] = NoB]
          /\ last' = Lbl("broadcast_done", c, m, FALSE, sent, <<>>, b2)
     ELSE /\ pc' = [pc EXCEPT ![c] = "broadcast"]
          /\ local' = [local EXCEPT ![c] = [env |-> env, n |-> k, target |-> websockets[k],
                                            msg |-> m]]
          /\ bc' = [bc EXCEPT ![c] = b2]
          /\ last' = Lbl("broadcast_send", c, m, FALSE, sent, <<>>, NoB)

\* lines 128-129 and 132-141: the store accepted; the broadcast begins
StoreDone(c) ==
  /\ pc[c] = "place"
  /\ LET env == DataEnv(Projection(Stored(local[c].args)), local[c].meta) IN
       Visit(c, 0, env,
             [by |-> c, owner |-> env.data.owner, start |-> Range(websockets),
              stayed |-> Range(websockets), got |-> <<>>, failed |-> <<>>, mut |-> FALSE],
             local[c].msg, <<>>)
  /\ UNCHANGED <<uid, color, addr, closed, websockets, websockets_colors, hits, known,
                 frames, window>>

\* a broadcast that drops a socket from the list when the send to it fails
BroadcastNext_prunes(c) ==
  /\ pc[c] = "broadcast"
  /\ closed[local[c].target]
  /\ local[c].target \in Range(websockets)
  /\ websockets' = ListRemove(websockets, local[c].target)
  /\ last' = Lbl("broadcast_send", c, local[c].msg, FALSE, <<>>, <<>>, NoB)
  /\ UNCHANGED <<pc, uid, color, addr, closed, websockets_colors, hits, known, frames, window,
                 local, bc>>

\* lines 141-144: the pending send comes back: the message went out, or the
\* socket was closed meanwhile and the send raised; on to the next socket
BroadcastNext(c) ==
  /\ pc[c] = "broadcast"
  /\ LET t == local[c].target IN
       IF closed[t]
       THEN Visit(c, local[c].n, local[c].env, [bc[c] EXCEPT !.failed = Append(@, t)],
                  local[c].msg, <<>>)
       ELSE Visit(c, local[c].n, local[c].env, [bc[c] EXCEPT !.got = Append(@, t)],
                  local[c].msg, <<To(t, local[c].env)>>)
  /\ UNCHANGED <<uid, color, addr, closed, websockets, websockets_colors, hits, known,
                 frames, window>>

\* ---------------------------------------------------------------- time
\* the window of a key runs out and its count starts again
WindowRoll(k) ==
  /\ k \in DOMAIN hits
  /\ hits' = Pop(hits, k)
  /\ window' = [u \in Uids |-> IF u = k THEN NoWindow ELSE window[u]]
  /\ last' = Quiet("roll", 0)
  /\ UNCHANGED <<pc, uid, color, addr, closed, websockets, websockets_colors, known,
                 frames, local, bc>>

\* ------------------------------------------------------------------ next
Next ==
  \/ \E c \in Conn, u \in Uids \cup {NoUid}, o \in LookupFailures \cup {"KeyError"} :
        Reject(c, u, o)
  \/ \E c \in Conn, u \in Uids : Register(c, u)
  \/ \E c \in Conn : PeerDisconnect(c)
  \/ \E c \in Conn : LoopExit(c)
  \/ \E c \in Conn, m \in Msgs : RecvLimited(c, m)
  \/ \E c \in Conn, m \in Msgs : RecvClose(c, m)
  \/ \E c \in Conn, m \in Msgs : RecvUnparsed(c, m)
  \/ \E c \in Conn, m \in Msgs : RecvError(c, m)
  \/ \E c \in Conn, m \in Msgs : RecvOther(c, m)
  \/ \E c \in Conn, m \in Msgs : RecvRejected(c, m)
  \/ \E c \in Conn, m \in Msgs : RecvRaises(c, m)
  \/ \E c \in Conn, m \in Msgs : RecvRange(c, m)
  \/ \E c \in Conn, m \in Msgs : RecvInvalid(c, m)
  \/ \E c \in Conn, m \in Msgs : RecvUpdate(c, m)
  \/ \E c \in Conn, v \in GetVoxelsResults : RetrieveDone(c, v)
  \/ \E c \in Conn, e \in StoreErrors : StoreFailed(c, e)
  \/ \E c \in Conn : StoreDone(c)
  \/ \E c \in Conn : BroadcastNext(c)
  \/ \E k \in DOMAIN hits : WindowRoll(k)

Spec == Init /\ [][Next]_vars

TypeOK ==
  /\ pc \in [Conn -> {"new", "rejected", "active", "retrieve", "place",
                      "broadcast", "closed", "crashed"}]
  /\ Range(websockets) \subseteq Conn
  /\ DOMAIN websockets_colors \subseteq Addr
  /\ frames \in 0..MaxFrames

\* -------------------------------------------------- the registry alone
\* The two registry operations of WebSocket.get applied in any order to any
\* registry: lines 35-36 and line 68.
RegistryAdd(c, col) ==
  /\ c \notin Range(websockets)
  /\ websockets' = Append(websockets, c)
  /\ addr' = [addr EXCEPT ![c] = NewAddr]
  /\ websockets_colors' = Put(websockets_colors, NewAddr, col)
  /\ last' = Quiet("add", c)
  /\ UNCHANGED <<pc, uid, color, closed, hits, known, frames, window, local, bc>>

RegistryRemove(c) ==
  /\ IF RemoveRaises(websockets, c)
     THEN /\ last' = Quiet("remove_raised", c)
          /\ UNCHANGED <<websockets, addr>>
     ELSE /\ websockets' = ListRemove(websockets, c)
          /\ addr' = [addr EXCEPT ![c] = 0]
          /\ last' = Quiet("remove", c)
  /\ UNCHANGED <<pc, uid, color, closed, websockets_colors, hits, known, frames, window, local,
                 bc>>

RegistryNext ==
  \/ \E c \in Conn, col \in Range(Palette) : RegistryAdd(c, col)
  \/ \E c \in Conn : RegistryRemove(c)

SpecRegistry == Init /\ [][RegistryNext]_vars

\* ================================================================ claims
\* the last step read a frame
FrameOps == {"limited", "close", "unparsed", "error", "other", "rejected", "raise", "range",
             "invalid", "update", "keyerror"}

JustRead == last.op \in FrameOps

\* the last step ended a broadcast
BroadcastOver == last.op = "broadcast_done"

Visited(b) == b.got \o b.failed

\* C1: during a broadcast in which a send failed, every other session that
\* was registered for the whole broadcast still received the message.
C1_FailureDoesNotStopDelivery ==
  BroadcastOver /\ last.b.failed # <<>> =>
    \A s \in last.b.stayed : s \notin Range(last.b.failed) => s \in Range(last.b.got)

\* C2: a session whose loop has ended, on whatever path, is no longer in
\* the connection registry.
C2_RemovedOnEveryExit ==
  \A c \in Conn : pc[c] \in {"closed", "crashed"} => c \notin Range(websockets)

\* C3: the sockets in the live set are exactly the sockets that have an
\* entry in the color map.
C3_LiveSetEqualsColorMap ==
  {addr[c] : c \in Range(websockets)} = DOMAIN websockets_colors

\* C4: when the registry changed while a broadcast was suspended, the
\* broadcast still sent the message exactly once to every session that
\* stayed registered from its start to its end.
C4_NoSkipUnderChange ==
  BroadcastOver /\ last.b.mut =>
    \A s \in last.b.stayed : Count(Visited(last.b), s) = 1

\* C5: a request read after the identity's budget was used up is answered
\* with the warning and has no other effect: no store call, no handler
\* left running, no broadcast.
C5_LimitedRequestHasNoEffect ==
  JustRead /\ last.over /\ last.msg.tp # "error" =>
    /\ last.sent = <<To(last.conn, LimitEnv)>>
    /\ last.store = <<>>
    /\ pc[last.conn] = "active"
    /\ local[last.conn] = NoLocal
    /\ bc[last.conn] = NoB

C5_Witness ==
  /\ JustRead /\ last.over
  /\ last.msg = [tp |-> "text", data |-> "Update"]
  /\ last.sent = <<To(last.conn, LimitEnv)>>

\* C6: the budget is one per identity: over all connections of an identity
\* no more than the configured number of requests pass the gate in a window.
C6_OneBudgetPerIdentity ==
  \A u \in Uids : window[u].passed <= Requests

C6_Witness ==
  \E c1, c2 \in Conn :
    /\ c1 # c2 /\ uid[c1] = uid[c2] /\ Running(c1) /\ Running(c2)
    /\ last.op = "limited" /\ last.conn = c2
    /\ window[uid[c2]].by = {c1}

\* C7: when the broadcast of an accepted update ends, the message carried
\* the submitter's color as owner and every registered session with an open
\* socket, the submitter included, got it exactly once.
C7_RoundTrip ==
  BroadcastOver =>
    /\ last.b.owner = color[last.conn]
    /\ \A s \in last.b.stayed : ~closed[s] => Count(last.b.got, s) = 1

\* the frame is an update whose payload verify_payload refuses
InvalidUpdate(m) ==
  /\ m.tp = "text" /\ m.data # "close" /\ ParseOK(m.data)
  /\ LET d == JsonLoads(m.data) IN
       /\ d.kind = "dict" /\ {"type", "args"} \subseteq DOMAIN d.val
       /\ d.val.type.kind = "str" /\ d.val.args.kind = "dict"
       /\ Lower(d.val.type.val) = "update"
       /\ ~verify_payload(Pop(d.val.args.val, "name"))

\* C8: an update with an invalid payload, read under the limit, makes no
\* store call and starts no broadcast; its one effect is the 'Invalid
\* payload' error envelope sent to the submitter.
C8_InvalidPayloadStopsAtPlace ==
  JustRead /\ ~last.over /\ InvalidUpdate(last.msg) =>
    /\ last.sent = <<To(last.conn, [error |-> [message |-> "Invalid payload"],
                                    meta |-> MetaOf(JsonLoads(last.msg.data))])>>
    /\ last.store = <<>>
    /\ pc[last.conn] = "active"
    /\ local[last.conn] = NoLocal
    /\ bc[last.conn] = NoB

C8_Witness ==
  /\ JustRead /\ ~last.over /\ InvalidUpdate(last.msg)
  /\ Len(websockets) = MaxConn

\* C9: a handshake that fails answers 400 (no uid), 500 (lookup error) or
\* 401 (no color) and changes neither the live set nor the color map; no
\* socket is created and nothing is sent.
C9_RejectedBeforeRegistry ==
  [][\A c \in Conn :
       pc[c] = "new" /\ pc'[c] = "rejected" =>
         /\ websockets' = websockets
         /\ websockets_colors' = websockets_colors
         /\ addr'[c] = 0
         /\ last'.sent = <<>>
         /\ last'.op \in {"no_uid", "lookup_failed", "no_color"}
         /\ last'.op = "no_uid" <=> last'.http = 400
         /\ last'.op = "lookup_failed" <=> last'.http = 500
         /\ last'.op = "no_color" <=> last'.http = 401]_vars

C9_Witness ==
  /\ last.op = "no_color" /\ last.http = 401
  /\ pc[last.conn] = "rejected"
  /\ websockets # <<>>

Active(c) == pc[c] = "active" /\ ~closed[c]

Registered(c) == c \in Range(websockets)

\* the last step read, under the limit, a text frame json.loads refuses
ReadMalformed ==
  JustRead /\ ~last.over /\ last.msg.tp = "text" /\ ~ParseOK(last.msg.data)

\* the step sent nothing, called no store and left the session in its loop
NoEffect ==
  /\ last.sent = <<>>
  /\ last.store = <<>>
  /\ Active(last.conn)
  /\ Registered(last.conn)
  /\ local[last.conn] = NoLocal
  /\ bc[last.conn] = NoB

\* C11 as stated: any text frame that is not valid JSON, read under the
\* limit, sends nothing, calls no store and leaves the session Active and
\* registered.  The bare word close is such a frame.
C11_MalformedIsIgnored_AsStated == ReadMalformed => NoEffect

\* C11: a text frame other than the close command that is not valid JSON,
\* read by an Active session under the limit, produces no outbound message
\* to any session, makes no store call, and leaves the session Active and
\* registered.
C11_MalformedIsIgnored == ReadMalformed /\ last.msg.data # "close" => NoEffect

C11_Witness ==
  /\ ReadMalformed /\ last.msg.data = "bad"
  /\ \E d \in Conn : d # last.conn /\ Active(d) /\ Registered(d)

\* the frame parses to a value line 83 turns away
RejectedFrame(m) ==
  /\ m.tp = "text" /\ m.data # "close" /\ ParseOK(m.data)
  /\ Rejected(JsonLoads(m.data))

\* the step sent one envelope, an error, to the session that read the frame
OneErrorToSender ==
  /\ Len(last.sent) = 1
  /\ last.sent[1].to = last.conn
  /\ "error" \in DOMAIN last.sent[1].env

\* C12: a parsed message that is not a mapping, or lacks 'type' or 'args',
\* is answered with an error envelope to the sender and reaches no handler:
\* no store call, no broadcast.
C12_RejectSendsError ==
  JustRead /\ ~last.over /\ RejectedFrame(last.msg) =>
    /\ OneErrorToSender
    /\ last.store = <<>>
    /\ pc[last.conn] = "active"
    /\ bc[last.conn] = NoB

\* the frame parses to an envelope whose type names no handler
UnknownType(m) ==
  /\ m.tp = "text" /\ m.data # "close" /\ ParseOK(m.data)
  /\ LET d == JsonLoads(m.data) IN
       /\ ~Rejected(d)
       /\ d.val.type.kind = "str"
       /\ Lower(d.val.type.val) \notin {"range", "update"}

UnknownMethod == [message |-> "Unknown method or no method specified"]

\* C13: an envelope whose type is neither 'range' nor 'update' is answered
\* with the error 'Unknown method or no method specified' whose meta.id is
\* the request's id; no store call and no broadcast happen.
C13_UnknownTypeAnswered ==
  JustRead /\ ~last.over /\ UnknownType(last.msg) =>
    /\ OneErrorToSender
    /\ last.sent[1].env.error = UnknownMethod
    /\ last.sent[1].env.meta.id = Get(JsonLoads(last.msg.data).val, "id", NoId)
    /\ last.store = <<>>
    /\ bc[last.conn] = NoB

\* the frames C14 lists: a text or binary frame over the limit, malformed
\* JSON, an envelope without type or args, an unknown type, an invalid
\* update payload
Survivable ==
  /\ JustRead
  /\ last.msg.tp # "error"
  /\ \/ last.over
     \/ ReadMalformed /\ last.msg.data # "close"
     \/ RejectedFrame(last.msg)
     \/ UnknownType(last.msg)
     \/ InvalidUpdate(last.msg)

\* C14: no such frame ends the session: after it is handled the session is
\* still in its loop with an open socket, and still registered.
C14_NoFrameEndsSession ==
  Survivable => Active(last.conn) /\ Registered(last.conn)

CloseCommand == [tp |-> "text", data |-> "close"]

\* C15: whenever a session in its loop reads the text frame 'close', the
\* server closes the connection, whatever the state of the sender's rate
\* limiter.
C15_CloseAlwaysCloses ==
  JustRead /\ last.msg = CloseCommand => closed[last.conn]

\* the steps that send envelopes in answer to a parsed request; last.msg is
\* the frame of that request
AnswerOps == {"invalid", "keyerror", "voxels", "storeerror", "broadcast_send",
              "broadcast_done"}

Envelopes == {last.sent[i].env : i \in DOMAIN last.sent}

Request == JsonLoads(last.msg.data).val

RequestId == Get(Request, "id", NoId)

\* the rate-limit warning is the only error that goes out without meta
OnlyWarningHasNoMeta ==
  \A e \in Envelopes : "error" \in DOMAIN e /\ "meta" \notin DOMAIN e => e = LimitEnv

\* C16 as stated: every envelope sent in answer to a parsed request carries
\* meta whose id is the request's id and whose type is the request's type.
C16_MetaEchoesRequest_AsStated ==
  /\ last.op \in AnswerOps =>
       \A e \in Envelopes :
         /\ "meta" \in DOMAIN e
         /\ e.meta = [id |-> RequestId, type |-> Request.type.val]
  /\ OnlyWarningHasNoMeta

\* C16: every envelope sent in answer to a parsed request (range result,
\* update broadcast, error) carries meta whose id is the request's id (null
\* when it has none) and whose type is the request's type in lower case;
\* the rate-limit warning is the only error sent without meta.
C16_MetaEchoesRequest ==
  /\ last.op \in AnswerOps =>
       \A e \in Envelopes :
         /\ "meta" \in DOMAIN e
         /\ e.meta = [id |-> RequestId, type |-> Lower(Request.type.val)]
  /\ OnlyWarningHasNoMeta

C16_Witness ==
  /\ last.op = "broadcast_done"
  /\ Request.type.val = "Update"
  /\ \E e \in Envelopes : e.meta = [id |-> 3, type |-> "update"]

\* C17: every message the server sends (userColor, range result, broadcast,
\* rate-limit warning, protocol and store errors) has exactly one of the
\* fields 'data' and 'error'.
C17_DataXorError ==
  \A e \in Envelopes : ("data" \in DOMAIN e) # ("error" \in DOMAIN e)

C17_Witness ==
  /\ last.op = "storeerror"
  /\ Envelopes # {}
  /\ \A e \in Envelopes : "error" \in DOMAIN e /\ "data" \notin DOMAIN e

\* C18: when the store refuses an update that passed validation and the
\* submitter is still connected, exactly one envelope goes out, to the
\* submitter: an error carrying the exception's dict when it has one and its
\* string otherwise, with the request's meta.  No broadcast starts and no
\* other session is touched.
C18_StoreFailureToSubmitterOnly ==
  [][\A c \in Conn, e \in StoreErrors :
       StoreFailed(c, e) /\ ~closed[c] =>
         /\ last'.sent =
              <<To(c, [error |-> IF e.structured THEN e.arg ELSE [message |-> e.arg],
                       meta |-> local[c].meta])>>
         /\ pc'[c] = "active"
         /\ bc'[c] = NoB
         /\ \A d \in Conn \ {c} : pc'[d] = pc[d] /\ local'[d] = local[d]]_vars

C18_Witness ==
  /\ last.op = "storeerror"
  /\ last.sent = <<To(last.conn, [error |-> [message |-> "taken"],
                                  meta |-> [id |-> 3, type |-> "update"]])>>
  /\ \E d \in Conn : d # last.conn /\ Active(d) /\ Registered(d)

\* a step of a broadcast: its start after the store call, or the return of
\* one of its sends
BroadcastStep(c) == StoreDone(c) \/ BroadcastNext(c)

\* C19: no step of a broadcast changes the live set or the color map,
\* whatever sends fail; a registered session leaves the live set only by
\* the removal at the end of its own loop.
C19_BroadcastKeepsRegistry ==
  [][/\ \A c \in Conn :
          BroadcastStep(c) =>
            /\ websockets' = websockets
            /\ websockets_colors' = websockets_colors
     /\ \A s \in Conn :
          Registered(s) /\ s \notin Range(websockets') =>
            last'.op = "exit" /\ last'.conn = s]_vars

\* a broadcast ended in which a send failed, and the session whose send
\* failed is still registered
C19_Witness ==
  /\ BroadcastOver
  /\ \E s \in Range(last.b.failed) : Registered(s) /\ closed[s]

\* C20: a session whose loop is running, whether it waits for a frame or
\* is inside a handler, has an entry in the color map under its own key,
\* and that entry is its color; the lookup of line 117 never raises
\* KeyError.
C20_ColorKnownWhileHandling ==
  /\ \A c \in Conn :
       Running(c) =>
         /\ ColorKey(c) \in DOMAIN websockets_colors
         /\ websockets_colors[ColorKey(c)] = color[c]
  /\ last.op # "keyerror"

\* an update was stamped with its sender's color after another session had
\* come and gone
C20_Witness ==
  /\ last.op = "update"
  /\ local[last.conn].args.owner = color[last.conn]
  /\ \E d \in Conn : pc[d] = "closed"

====
